---- MODULE Spec2Model ----
(***************************************************************************)
(* Model of htr_postprocessing.py: abbreviation expansion, boundary-safe   *)
(* replacement, linebreak repair and lexicon-based normalisation.          *)
(*                                                                         *)
(* A Python str is a sequence of one-character strings: "amo" is           *)
(* <<"a","m","o">>, a blank is " " and a linebreak is "\n".                *)
(***************************************************************************)
EXTENDS Integers, Sequences, FiniteSets, TLC

VARIABLES
    pc,                         \* position of the operation under study
    word,                       \* normalise_text: loop variable `word`
    superlemma,                 \* normalise_text: local `superlemma`
    lemma,                      \* normalise_text: local `lemma`
    wordform,                   \* normalise_text: local `wordform`
    normalised_word,            \* normalise_text: local `normalised_word`
    text,                       \* TextForPostprocessing.text / sample_text
    unique_words,               \* tokens of the snapshot not yet iterated
    normalisation_error_list,   \* Normalisation.normalisation_error_list
    dict_normalization,         \* local `dict_normalization`, Unbound before line 319
    df,                         \* the lexicon dataframe
    config,                     \* the tables read from the config module
    expanded_words,             \* Expansion.expanded_words
    args                        \* the arguments of the calls made so far

vars == <<pc, word, superlemma, lemma, wordform, normalised_word, text,
          unique_words, normalisation_error_list, dict_normalization, df,
          config, expanded_words, args>>

----------------------------------------------------------------------------
(* Bounds of the model *)

MaxBaseLen == 3
MaxLemmaStemLen == 1
MaxWordLen == 3
MaxRootLen == 2
MaxTextLen == 5
MaxTokenLen == 1
MaxAbbrLen == 2
MaxCalls == 2
MaxSegTextLen == 8
MaxTokens == 3

----------------------------------------------------------------------------
(* Python str primitives *)

\* a local variable that no assignment has bound yet
Unbound == [unbound |-> TRUE]

SP == " "
NL == "\n"
AT == "@"

Max(a, b) == IF a >= b THEN a ELSE b
Min(a, b) == IF a <= b THEN a ELSE b

\* all strings over the characters A of length at most n
StringsUpTo(A, n) == UNION {[1..k -> A] : k \in 0..n}

\* s[a:b] for 0 <= a, b (0-based, end exclusive)
Slice(s, a, b) == SubSeq(s, a + 1, Min(b, Len(s)))

\* s.startswith(p, i): p occurs in s at 0-based offset i
OccursAt(s, p, i) ==
    /\ i + Len(p) <= Len(s)
    /\ \A k \in 1..Len(p) : s[i + k] = p[k]

\* s.endswith(suffix)
EndsWith(s, suffix) ==
    /\ Len(suffix) <= Len(s)
    /\ OccursAt(s, suffix, Len(s) - Len(suffix))

\* s[:-n] for n >= 1
DropLast(s, n) == SubSeq(s, 1, Max(0, Len(s) - n))

\* s[-1:]
LastChar(s) == IF Len(s) = 0 THEN <<>> ELSE <<s[Len(s)]>>

\* s.split("@"): the list of the pieces of s between the "@" characters
RECURSIVE SplitAt(_)
SplitAt(s) ==
    IF \A k \in 1..Len(s) : s[k] # AT
    THEN <<s>>
    ELSE LET i == CHOOSE k \in 1..Len(s) :
                      s[k] = AT /\ \A j \in 1..(k - 1) : s[j] # AT
         IN  <<SubSeq(s, 1, i - 1)>> \o SplitAt(SubSeq(s, i + 1, Len(s)))

\* the letters that have an upper case, with it
UpperCase == [a |-> "A", b |-> "B", i |-> "I", j |-> "J", x |-> "X"]
CasedLower == {"a", "b", "i", "j", "x"}
CasedUpper == {"A", "B", "I", "J", "X"}

ToUpper(c) ==
    IF c \in CasedLower THEN UpperCase[c] ELSE c

ToLower(c) ==
    IF c \in CasedUpper THEN CHOOSE l \in CasedLower : UpperCase[l] = c ELSE c

\* s.lower()
Lower(s) == [k \in 1..Len(s) |-> ToLower(s[k])]

\* s.capitalize(): first character upper case, the others lower case
Capitalize(s) == [k \in 1..Len(s) |-> IF k = 1 THEN ToUpper(s[k]) ELSE ToLower(s[k])]

\* s[0].isupper()
StartsUpper(s) == s[1] \in CasedUpper

\* s[i:].replace(old, new) for a non-empty old: every occurrence of old,
\* taken from the left and not overlapping, becomes new
RECURSIVE ReplaceFrom(_, _, _, _)
ReplaceFrom(s, old, new, i) ==
    IF i >= Len(s) THEN <<>>
    ELSE IF OccursAt(s, old, i)
         THEN new \o ReplaceFrom(s, old, new, i + Len(old))
         ELSE <<s[i + 1]>> \o ReplaceFrom(s, old, new, i + 1)

\* s[i:].replace("", new) behind the first new: new follows every character
RECURSIVE InterleaveFrom(_, _, _)
InterleaveFrom(s, new, i) ==
    IF i >= Len(s) THEN <<>>
    ELSE <<s[i + 1]>> \o new \o InterleaveFrom(s, new, i + 1)

\* s.replace(old, new)
PyReplace(s, old, new) ==
    IF old = <<>>
    THEN new \o InterleaveFrom(s, new, 0)
    ELSE ReplaceFrom(s, old, new, 0)

----------------------------------------------------------------------------
(* normalise_text, lines 311-356: the root of one lexicon row *)

\* line 312: the stopwords
Stopwords == { <<"a","l","e","a","@","N","N">>,
               <<"a","@","A","P">>,
               <<"h","i","l","l","a","@","N","N">> }

IsStopword(sl) == sl \in Stopwords

\* line 314: superlemma.split("@")[0][-1:] != lemma[-1:]
EndingMismatch(sl, l) == LastChar(SplitAt(sl)[1]) # LastChar(l)

\* line 322: wordform = superlemma.split("@")[1]
Wordform(sl) == SplitAt(sl)[2]

\* the verb branch without its "sco" case
RootV_NoSco(sl, l) ==
    LET base == SplitAt(sl)[1]
        chars_to_delete == IF EndsWith(base, <<"o","r">>) THEN 2 ELSE 1
    IN  [superlemma |-> DropLast(base, chars_to_delete),
         lemma      |-> DropLast(l, chars_to_delete)]

\* lines 326-334: the verb branch
RootV(sl, l) ==
    LET base == SplitAt(sl)[1]
        chars_to_delete ==
            IF EndsWith(base, <<"o","r">>) THEN 2
            ELSE IF EndsWith(base, <<"s","c","o">>) THEN 3
            ELSE 1
    IN  [superlemma |-> DropLast(base, chars_to_delete),
         lemma      |-> DropLast(l, chars_to_delete)]

\* lines 336-337: the adverb branch
RootADV(sl, l) == [superlemma |-> SplitAt(sl)[1], lemma |-> l]

\* lines 339-345: the pronoun branch; endswith is asked of the whole
\* superlemma, tag included, before the split of line 344
RootPRO(sl, l) ==
    LET chars_to_delete == IF EndsWith(sl, <<"e","r">>) THEN 2 ELSE 1
    IN  [superlemma |-> DropLast(SplitAt(sl)[1], chars_to_delete),
         lemma      |-> DropLast(l, chars_to_delete)]

\* line 349
endings == << <<"u","m">>, <<"u","s">>, <<"u">>, <<"e">>, <<"o","s">>,
              <<"a">>, <<"u","s">>, <<"i","s">>, <<"e","s">>, <<"a","s">> >>

\* lines 350-353: the loop over the endings from index i on; it has no break
RECURSIVE StripEndings(_, _)
StripEndings(r, i) ==
    IF i > Len(endings) THEN r
    ELSE IF EndsWith(r.superlemma, endings[i])
         THEN StripEndings([superlemma |-> DropLast(r.superlemma, Len(endings[i])),
                            lemma      |-> DropLast(r.lemma, Len(endings[i]))],
                           i + 1)
         ELSE StripEndings(r, i + 1)

\* lines 348-353: the default branch
RootDefault(sl, l) == StripEndings([superlemma |-> SplitAt(sl)[1], lemma |-> l], 1)

\* lines 325-353
Root(sl, l) ==
    LET wf == Wordform(sl)
    IN  IF wf = <<"V">> THEN RootV(sl, l)
        ELSE IF wf = <<"A","D","V">> THEN RootADV(sl, l)
        ELSE IF wf = <<"P","R","O">> THEN RootPRO(sl, l)
        ELSE RootDefault(sl, l)

----------------------------------------------------------------------------
(* Specification SpecRoot: one lexicon row through lines 311-356 *)

RootAlphabet == {"a", "c", "e", "i", "m", "o", "r", "s", "u"}
LemmaStemAlphabet == {"a", "e"}
Tags == { <<"V">>, <<"A","D","V">>, <<"P","R","O">>, <<"N","N">>, <<"A","P">> }

\* SL-Name and L-Name are non-empty cells of the lexicon
Bases == StringsUpTo(RootAlphabet, MaxBaseLen) \ {<<>>}

\* the lemmata of a row: a stem and the last character of the base, or a
\* last character that differs from it ("x")
LemmasOf(base) ==
    { stem \o last : stem \in StringsUpTo(LemmaStemAlphabet, MaxLemmaStemLen),
                     last \in {LastChar(base), <<"x">>} }

NoLocals ==
    /\ word = <<>>
    /\ normalised_word = <<>>
    /\ text = <<>>
    /\ unique_words = {}
    /\ normalisation_error_list = <<>>
    /\ dict_normalization = Unbound
    /\ df = <<>>
    /\ config = <<>>
    /\ expanded_words = <<>>

InitRoot ==
    /\ pc = "row"
    /\ \E base \in Bases, tag \in Tags :
         /\ superlemma = base \o <<AT>> \o tag
         /\ lemma \in LemmasOf(base)
         /\ args = [base |-> base, tag |-> tag, lemma |-> lemma]
    /\ wordform = <<>>
    /\ NoLocals

RowUnchanged ==
    UNCHANGED <<word, normalised_word, text, unique_words,
                normalisation_error_list, dict_normalization, df, config,
                expanded_words, args>>

\* lines 312-313
SkipStopword ==
    /\ pc = "row"
    /\ IsStopword(superlemma)
    /\ pc' = "skipped"
    /\ UNCHANGED <<superlemma, lemma, wordform>>
    /\ RowUnchanged

\* lines 314-316
SkipMismatch ==
    /\ pc = "row"
    /\ ~IsStopword(superlemma)
    /\ EndingMismatch(superlemma, lemma)
    /\ pc' = "skipped"
    /\ UNCHANGED <<superlemma, lemma, wordform>>
    /\ RowUnchanged

\* lines 322-356
TakeRoot ==
    /\ pc = "row"
    /\ ~IsStopword(superlemma)
    /\ ~EndingMismatch(superlemma, lemma)
    /\ wordform' = Wordform(superlemma)
    /\ superlemma' = Root(superlemma, lemma).superlemma
    /\ lemma' = Root(superlemma, lemma).lemma
    /\ pc' = "rooted"
    /\ RowUnchanged

NextRoot == SkipStopword \/ SkipMismatch \/ TakeRoot

SpecRoot == InitRoot /\ [][NextRoot]_vars

\* the first entry of the list of endings that s ends with, 0 when there is none
FirstEnding(s) ==
    IF \E i \in 1..Len(endings) : EndsWith(s, endings[i])
    THEN CHOOSE i \in 1..Len(endings) :
             /\ EndsWith(s, endings[i])
             /\ \A j \in 1..(i - 1) : ~EndsWith(s, endings[j])
    ELSE 0

\* s without its last n characters, and empty when s is shorter than n
Without(s, n) == IF Len(s) <= n THEN <<>> ELSE [k \in 1..(Len(s) - n) |-> s[k]]

IsDefaultTag(tag) == tag \notin { <<"V">>, <<"A","D","V">>, <<"P","R","O">> }

\* C1: for a super-lemma whose part of speech is neither V, ADV nor PRO, the
\* root is the base minus exactly the first ending of the list that the base
\* ends with (the base itself when none matches), and the lemma loses the
\* same ending; no further ending is removed.
C1_OneEndingStripped ==
    (pc = "rooted" /\ IsDefaultTag(args.tag)) =>
        LET i == FirstEnding(args.base)
            n == IF i = 0 THEN 0 ELSE Len(endings[i])
        IN  /\ superlemma = Without(args.base, n)
            /\ lemma = Without(args.lemma, n)

\* C2: for a PRO super-lemma, 2 trailing characters are stripped from the
\* base and from the lemma when the base ends in "er", and 1 otherwise.
C2_PronounStrip ==
    (pc = "rooted" /\ args.tag = <<"P","R","O">>) =>
        LET n == IF EndsWith(args.base, <<"e","r">>) THEN 2 ELSE 1
        IN  /\ superlemma = Without(args.base, n)
            /\ lemma = Without(args.lemma, n)

\* C8: for a V super-lemma, the number of trailing characters stripped from
\* the base is 2 when the base ends in "or", 3 when it ends in "sco" and 1
\* otherwise, and the same number is stripped from the lemma (all of the
\* lemma when it is shorter than that).
C8_VerbStrip ==
    (pc = "rooted" /\ args.tag = <<"V">>) =>
        LET n == IF EndsWith(args.base, <<"o","r">>) THEN 2
                 ELSE IF EndsWith(args.base, <<"s","c","o">>) THEN 3
                 ELSE 1
        IN  /\ Len(superlemma) = Len(args.base) - n
            /\ superlemma = Without(args.base, n)
            /\ lemma = Without(args.lemma, n)

\* a verb in "or" has been rooted: 2 characters are gone from base and lemma
C8_Witness ==
    /\ pc = "rooted"
    /\ args.tag = <<"V">>
    /\ args.base = <<"m","o","r">>
    /\ args.lemma = <<"a","r">>
    /\ superlemma = <<"m">>
    /\ lemma = <<>>

----------------------------------------------------------------------------
(* normalise_text, lines 358-364: the surface substitution *)

\* lines 359-364: the roots as line 364 uses them, and the normalised word
SurfaceSubstitution(w, sl_root, l_root) ==
    LET l  == IF StartsUpper(w) THEN Capitalize(l_root) ELSE l_root
        sl == IF StartsUpper(w) THEN Capitalize(sl_root) ELSE sl_root
    IN  [lemma |-> l, superlemma |-> sl, normalised_word |-> PyReplace(w, l, sl)]

(* Specification SpecSubst: one token and its two roots through lines 358-364 *)

SubstAlphabet == {"a", "b"}

\* tokens: non-empty, the first letter in either case
SubstWords ==
    { <<first>> \o rest : first \in SubstAlphabet \cup {"A"},
                          rest \in StringsUpTo(SubstAlphabet, MaxWordLen - 1) }

SubstRoots == StringsUpTo(SubstAlphabet, MaxRootLen)

InitSubst ==
    /\ pc = "rooted"
    /\ word \in SubstWords
    /\ superlemma \in SubstRoots
    /\ lemma \in SubstRoots
    /\ wordform = <<"N","N">>
    /\ args = [word |-> word, superlemma_root |-> superlemma, lemma_root |-> lemma]
    /\ normalised_word = <<>>
    /\ text = <<>>
    /\ unique_words = {}
    /\ normalisation_error_list = <<>>
    /\ dict_normalization = Unbound
    /\ df = <<>>
    /\ config = <<>>
    /\ expanded_words = <<>>

\* lines 359-364
Substitute ==
    /\ pc = "rooted"
    /\ lemma' = SurfaceSubstitution(word, superlemma, lemma).lemma
    /\ superlemma' = SurfaceSubstitution(word, superlemma, lemma).superlemma
    /\ normalised_word' = SurfaceSubstitution(word, superlemma, lemma).normalised_word
    /\ pc' = "substituted"
    /\ UNCHANGED <<word, wordform, text, unique_words, normalisation_error_list,
                   dict_normalization, df, config, expanded_words, args>>

NextSubst == Substitute

SpecSubst == InitSubst /\ [][NextSubst]_vars

\* C5: the normalised word is the token with only the first occurrence of the
\* lemma root replaced by the super-lemma root; later occurrences are kept,
\* and a token that does not contain the lemma root (an empty lemma root
\* included) is unchanged.
C5_FirstOccurrenceOnly ==
    pc = "substituted" =>
        IF lemma # <<>> /\ \E i \in 0..Len(word) : OccursAt(word, lemma, i)
        THEN LET i == CHOOSE k \in 0..Len(word) :
                          /\ OccursAt(word, lemma, k)
                          /\ \A j \in 0..(k - 1) : ~OccursAt(word, lemma, j)
             IN  normalised_word =
                     SubSeq(word, 1, i) \o superlemma
                         \o SubSeq(word, i + Len(lemma) + 1, Len(word))
        ELSE normalised_word = word

----------------------------------------------------------------------------
(* TextForPostprocessing.replace_word_in_text, lines 80-89 *)

\* re.sub(pattern, repl, s) for a pattern and a replacement made of literal
\* characters: the matches are taken from the left and do not overlap
ReSub(pattern, repl, s) == ReplaceFrom(s, pattern, repl, 0)

\* the three substitutions of lines 87-89 (and of lines 377-379)
BoundarySub(t, original, replacement) ==
    LET t1 == ReSub(<<SP>> \o original \o <<SP>>, <<SP>> \o replacement \o <<SP>>, t)
        t2 == ReSub(<<NL>> \o original \o <<SP>>, <<NL>> \o replacement \o <<SP>>, t1)
    IN  ReSub(<<SP>> \o original \o <<NL>>, <<SP>> \o replacement \o <<NL>>, t2)

\* the replacement of line 376, left in the source as a comment
ReplaceWordPlain(t, w) == PyReplace(t, w[1], w[2])

\* lines 87-89: the text after replace_word_in_text(w), w = [token, expansion]
ReplaceWordInText(t, w) == BoundarySub(t, w[1], w[2])

(* Specification SpecRepl: one call of replace_word_in_text on a text *)

TextAlphabet == {"a", "b", SP, NL}
Letters == {"a", "b"}

Texts == StringsUpTo(TextAlphabet, MaxTextLen)

\* tokens: non-empty, without whitespace
Tokens == StringsUpTo(Letters, MaxTokenLen) \ {<<>>}

\* expansions: a token, or two words of the abbreviation dictionary
Expansions == Tokens \cup { <<"a", SP, "a">>, <<"b", SP, "a">> }

InitRepl ==
    /\ pc = "call"
    /\ text \in Texts
    /\ args = [text |-> text]
    /\ word = <<>>
    /\ superlemma = <<>>
    /\ lemma = <<>>
    /\ wordform = <<>>
    /\ normalised_word = <<>>
    /\ unique_words = {}
    /\ normalisation_error_list = <<>>
    /\ dict_normalization = Unbound
    /\ df = <<>>
    /\ config = <<>>
    /\ expanded_words = <<>>

\* lines 80-89
replace_word_in_text ==
    /\ pc = "call"
    /\ \E original \in Tokens, replacement \in Expansions :
         /\ word' = <<original, replacement>>
         /\ text' = ReplaceWordInText(text, <<original, replacement>>)
    /\ pc' = "replaced"
    /\ UNCHANGED <<superlemma, lemma, wordform, normalised_word, unique_words,
                   normalisation_error_list, dict_normalization, df, config,
                   expanded_words, args>>

NextRepl == replace_word_in_text

SpecRepl == InitRepl /\ [][NextRepl]_vars

IsBlank(c) == c = SP
IsBreak(c) == c = NL

\* the 0-based offsets at which o occurs in t between blank and blank, break
\* and blank, or blank and break
DelimitedOccurrences(t, o) ==
    { i \in 1..(Len(t) - Len(o) - 1) :
        /\ OccursAt(t, o, i)
        /\ \/ IsBlank(t[i]) /\ IsBlank(t[i + Len(o) + 1])
           \/ IsBreak(t[i]) /\ IsBlank(t[i + Len(o) + 1])
           \/ IsBlank(t[i]) /\ IsBreak(t[i + Len(o) + 1]) }

\* t[j:] with the occurrences of o at the offsets S exchanged for r, every
\* other character kept
RECURSIVE ExchangeAt(_, _, _, _, _)
ExchangeAt(t, S, o, r, j) ==
    IF j >= Len(t) THEN <<>>
    ELSE IF j \in S
         THEN r \o ExchangeAt(t, S, o, r, j + Len(o))
         ELSE <<t[j + 1]>> \o ExchangeAt(t, S, o, r, j + 1)

C11_EveryDelimitedOccurrenceReplaced ==
    (pc = "replaced" /\ word[2] \in Tokens /\ word[2] # word[1]) =>
        DelimitedOccurrences(text, word[1]) = {}

----------------------------------------------------------------------------
(* Expansion, lines 102-135 *)

\* line 120: any(character in self.special_characters for character in word)
HasSpecialCharacter(w, special_characters) ==
    \E k \in 1..Len(w) : w[k] \in special_characters

\* lines 127-130: the rules, a list of (key, value) in configured order,
\* applied from rule i on
RECURSIVE ApplyRules(_, _, _)
ApplyRules(expansion, rules, i) ==
    IF i > Len(rules) THEN expansion
    ELSE ApplyRules(PyReplace(expansion, rules[i][1], rules[i][2]), rules, i + 1)

\* lines 122-130
Expand(w, e) ==
    IF w \in DOMAIN e.abbreviation_dictionary
    THEN e.abbreviation_dictionary[w]
    ELSE ApplyRules(w, e.rules_for_expansion, 1)

\* expand_abbreviation that drops an expansion equal to its token
ExpandAbbreviation_DropNoop(w, e, list) ==
    IF HasSpecialCharacter(w, e.special_characters) /\ Expand(w, e) # w
    THEN Append(list, <<w, Expand(w, e)>>)
    ELSE list

\* lines 111-135: expanded_words after expand_abbreviation(w)
ExpandAbbreviation(w, e, list) ==
    IF HasSpecialCharacter(w, e.special_characters)
    THEN Append(list, <<w, Expand(w, e)>>)
    ELSE list

(* Specification SpecExp: calls of expand_abbreviation on one Expansion object *)

AbbrAlphabet == {"a", "~", "^"}
AbbrWords == StringsUpTo(AbbrAlphabet, MaxAbbrLen) \ {<<>>}

SpecialCharacterSets == { {"~"}, {"~", "^"} }

AbbreviationDictionaries ==
    { <<>>,
      (<<"a", "~">> :> <<"a", "~">>) @@ (<<"^">> :> <<"a", "b">>) }

RuleLists ==
    { <<>>,
      << << <<"~">>, <<"^">> >>, << <<"^">>, <<"u", "s">> >> >>,
      << << <<"^">>, <<"u", "s">> >>, << <<"~">>, <<"^">> >> >>,
      << << <<"a", "~">>, <<"a", "n">> >>, << <<"~">>, <<"m">> >> >> }

InitExp ==
    /\ pc = "expanding"
    /\ \E sc \in SpecialCharacterSets, d \in AbbreviationDictionaries, r \in RuleLists :
         config = [special_characters |-> sc, abbreviation_dictionary |-> d,
                   rules_for_expansion |-> r]
    /\ expanded_words = <<>>
    /\ args = <<>>
    /\ word = <<>>
    /\ superlemma = <<>>
    /\ lemma = <<>>
    /\ wordform = <<>>
    /\ normalised_word = <<>>
    /\ text = <<>>
    /\ unique_words = {}
    /\ normalisation_error_list = <<>>
    /\ dict_normalization = Unbound
    /\ df = <<>>

\* lines 111-135
expand_abbreviation ==
    /\ pc = "expanding"
    /\ Len(args) < MaxCalls
    /\ \E w \in AbbrWords :
         /\ word' = w
         /\ expanded_words' = ExpandAbbreviation(w, config, expanded_words)
         /\ args' = Append(args, w)
    /\ UNCHANGED <<pc, superlemma, lemma, wordform, normalised_word, text,
                   unique_words, normalisation_error_list, dict_normalization,
                   df, config>>

NextExp == expand_abbreviation

SpecExp == InitExp /\ [][NextExp]_vars

\* the tokens of the calls that contain a marker character, in call order
MarkedCalls == SelectSeq(args, LAMBDA w : \E k \in DOMAIN w : w[k] \in config.special_characters)

\* w after the rules 1..i, one after the other
RECURSIVE AfterRules(_, _)
AfterRules(w, i) ==
    IF i = 0 THEN w
    ELSE PyReplace(AfterRules(w, i - 1),
                   config.rules_for_expansion[i][1], config.rules_for_expansion[i][2])

\* C7: expanded_words holds, in call order, exactly one [token, expansion]
\* pair for each call whose token contains a marker character, and none for
\* the other calls; the expansion is the dictionary's value when the token
\* is a key of the dictionary, and else the token after every rule in
\* configured order.
C7_ExpandedWords ==
    /\ Len(expanded_words) = Len(MarkedCalls)
    /\ \A n \in 1..Len(MarkedCalls) :
         LET w == MarkedCalls[n]
         IN  /\ expanded_words[n][1] = w
             /\ expanded_words[n][2] =
                    IF w \in DOMAIN config.abbreviation_dictionary
                    THEN config.abbreviation_dictionary[w]
                    ELSE AfterRules(w, Len(config.rules_for_expansion))

\* a call without marker left no pair; a call with a marker left one whose
\* expansion equals the token
C7_Witness ==
    /\ args = << <<"a">>, <<"a", "~">> >>
    /\ expanded_words = << << <<"a", "~">>, <<"a", "~">> >> >>

----------------------------------------------------------------------------
(* Normalisation.word_segmentation, lines 272-294 *)

\* \w, over the characters of the model
IsWordChar(c) == c \notin {SP, NL}

\* \b before the character at 0-based offset i
BoundaryAt(t, i) ==
    LET before == i >= 1 /\ IsWordChar(t[i])
        after  == i < Len(t) /\ IsWordChar(t[i + 1])
    IN  before # after

\* the offset behind the run of word characters that starts at offset i
RECURSIVE RunEnd(_, _)
RunEnd(t, i) == IF i < Len(t) /\ IsWordChar(t[i + 1]) THEN RunEnd(t, i + 1) ELSE i

\* the offset behind the match of \b\w+\n\w+\b at offset i, -1 without match
MatchEnd(t, i) ==
    LET e1 == RunEnd(t, i)
    IN  IF /\ BoundaryAt(t, i)
           /\ e1 > i
           /\ e1 < Len(t)
           /\ t[e1 + 1] = NL
           /\ RunEnd(t, e1 + 1) > e1 + 1
        THEN RunEnd(t, e1 + 1)
        ELSE -1

\* line 285: re.findall(pattern, text) from offset i on
RECURSIVE FindAll(_, _)
FindAll(t, i) ==
    IF i >= Len(t) THEN <<>>
    ELSE IF MatchEnd(t, i) >= 0
         THEN <<Slice(t, i, MatchEnd(t, i))>> \o FindAll(t, MatchEnd(t, i))
         ELSE FindAll(t, i + 1)

\* the column WF-Name of the lexicon
WFNames(lexicon) == { lexicon[k].WF : k \in DOMAIN lexicon }

\* lines 291, 305: self.df['WF-Name'].eq(w.lower()).any()
Attested(lexicon, w) == Lower(w) \in WFNames(lexicon)

\* lines 287-292: the loop over the instances from number n on
RECURSIVE RepairFrom(_, _, _, _)
RepairFrom(t, linebreaks, lexicon, n) ==
    IF n > Len(linebreaks) THEN t
    ELSE LET instance == linebreaks[n]
             evaluation_term == PyReplace(instance, <<NL>>, <<>>)
         IN  IF Attested(lexicon, evaluation_term)
             THEN RepairFrom(PyReplace(t, instance, evaluation_term), linebreaks, lexicon, n + 1)
             ELSE RepairFrom(t, linebreaks, lexicon, n + 1)

\* lines 283-294
WordSegmentation(t, lexicon) == RepairFrom(t, FindAll(t, 0), lexicon, 1)

(* Specification SpecSeg: one call of word_segmentation *)

SegAlphabet == {"a", SP, NL}
SegTexts == StringsUpTo(SegAlphabet, MaxSegTextLen)

Row(wf, sl, l) == [WF |-> wf, SL |-> sl, L |-> l]

SegLexicons ==
    { <<>>,
      << Row(<<"a","a">>, <<"a","a","@","N","N">>, <<"a","a">>) >>,
      << Row(<<"a","a","a">>, <<"a","a","a","@","N","N">>, <<"a","a","a">>) >>,
      << Row(<<"a","a">>, <<"a","a","@","N","N">>, <<"a","a">>),
         Row(<<"a","a","a">>, <<"a","a","a","@","N","N">>, <<"a","a","a">>) >> }

InitSeg ==
    /\ pc = "call"
    /\ text \in SegTexts
    /\ df \in SegLexicons
    /\ args = [text |-> text]
    /\ word = <<>>
    /\ superlemma = <<>>
    /\ lemma = <<>>
    /\ wordform = <<>>
    /\ normalised_word = <<>>
    /\ unique_words = {}
    /\ normalisation_error_list = <<>>
    /\ dict_normalization = Unbound
    /\ config = <<>>
    /\ expanded_words = <<>>

\* lines 272-294
word_segmentation ==
    /\ pc = "call"
    /\ text' = WordSegmentation(text, df)
    /\ pc' = "segmented"
    /\ UNCHANGED <<word, superlemma, lemma, wordform, normalised_word,
                   unique_words, normalisation_error_list, dict_normalization,
                   df, config, expanded_words, args>>

NextSeg == word_segmentation

SpecSeg == InitSeg /\ [][NextSeg]_vars

\* the whole word that ends before position p, and the one that starts behind it
RECURSIVE WordBefore(_, _)
WordBefore(t, p) ==
    IF p > 1 /\ IsWordChar(t[p - 1]) THEN WordBefore(t, p - 1) \o <<t[p - 1]>> ELSE <<>>

RECURSIVE WordAfter(_, _)
WordAfter(t, p) ==
    IF p < Len(t) /\ IsWordChar(t[p + 1]) THEN <<t[p + 1]>> \o WordAfter(t, p + 1) ELSE <<>>

\* the positions of the linebreaks of t that lie between two words whose
\* concatenation, lowercased, is a surface form of the lexicon
AttestedBreaks(t, lexicon) ==
    { p \in 1..Len(t) :
        /\ t[p] = NL
        /\ WordBefore(t, p) # <<>>
        /\ WordAfter(t, p) # <<>>
        /\ Lower(WordBefore(t, p) \o WordAfter(t, p)) \in WFNames(lexicon) }

\* t without the characters at the positions D
RECURSIVE DeleteAt(_, _, _)
DeleteAt(t, D, p) ==
    IF p > Len(t) THEN <<>>
    ELSE IF p \in D THEN DeleteAt(t, D, p + 1)
         ELSE <<t[p]>> \o DeleteAt(t, D, p + 1)

\* C3: word_segmentation deletes a linebreak only when it lies between two
\* words whose concatenation, lowercased, is a surface form of the lexicon;
\* every other linebreak, and every other character, is still in the
\* returned text at its place.
C3_OnlyAttestedBreaksDeleted ==
    pc = "segmented" =>
        \E D \in SUBSET AttestedBreaks(args.text, df) :
            text = DeleteAt(args.text, D, 1)

----------------------------------------------------------------------------
(* Normalisation.normalise_text, lines 296-397 *)

IsSpace(c) == c \in {SP, NL}

\* line 298: sample_text.split() from position p on, cur the token being read
RECURSIVE SplitFrom(_, _, _)
SplitFrom(t, p, cur) ==
    IF p > Len(t) THEN (IF cur = <<>> THEN <<>> ELSE <<cur>>)
    ELSE IF IsSpace(t[p])
         THEN (IF cur = <<>> THEN <<>> ELSE <<cur>>) \o SplitFrom(t, p + 1, <<>>)
         ELSE SplitFrom(t, p + 1, Append(cur, t[p]))

Split(t) == SplitFrom(t, 1, <<>>)

\* lines 298-300: set(sample_text.split())
UniqueWords(t) == { Split(t)[k] : k \in DOMAIN Split(t) }

\* lines 307, 309: the first row of the lexicon whose WF-Name is w.lower()
FirstRow(lexicon, w) ==
    lexicon[CHOOSE k \in DOMAIN lexicon :
                /\ lexicon[k].WF = Lower(w)
                /\ \A j \in 1..(k - 1) : lexicon[j].WF # Lower(w)]

\* lines 385-387 and 393-395: the character table applied to the text
NormaliseCharacters(t, cfg) == ApplyRules(t, cfg.characters_to_normalise, 1)

\* lines 322-373: the record of a word that is normalised
NormaliseWord(w, sl, l, cfg) ==
    LET r  == Root(sl, l)
        s  == SurfaceSubstitution(w, r.superlemma, r.lemma)
        nw == IF Wordform(sl) = <<"V">>
              THEN ApplyRules(s.normalised_word, cfg.verb_endings_to_normalise, 1)
              ELSE s.normalised_word
    IN  [Wort |-> w, Superlemma |-> sl, Lemma |-> l,
         Superlemma_root |-> r.superlemma, Lemma_root |-> r.lemma,
         Wortform |-> Wordform(sl), Normalisierung |-> nw]

\* lines 303-390: one pass of the loop body for the word w, from the state
\* st = [text, errors, dict]; pc is "raised" when line 390 reads
\* dict_normalization before line 319 ever bound it
Iteration(st, w, lexicon, cfg) ==
    IF Attested(lexicon, w)
    THEN LET sl == FirstRow(lexicon, w).SL
             l  == FirstRow(lexicon, w).L
         IN  IF IsStopword(sl) \/ EndingMismatch(sl, l)
             THEN [text |-> st.text, errors |-> st.errors, dict |-> st.dict, pc |-> "loop"]
             ELSE LET d == NormaliseWord(w, sl, l, cfg)
                  IN  [text   |-> NormaliseCharacters(
                                      BoundarySub(st.text, w, d.Normalisierung), cfg),
                       errors |-> st.errors,
                       dict   |-> d,
                       pc     |-> "loop"]
    ELSE [text   |-> NormaliseCharacters(st.text, cfg),
          errors |-> Append(st.errors, w),
          dict   |-> st.dict,
          pc     |-> IF st.dict = Unbound THEN "raised" ELSE "loop"]

(* Specification SpecNorm: one call of normalise_text, the unique words *)
(* iterated in any order                                                 *)

NormVocabulary == { <<"j","a">>, <<"i","a">>, <<"x","a">>, <<"b">> }

\* the tokens of a text, in order, and the separators between them
NormTexts ==
    UNION { { [k \in 1..(2 * n - 1) |->
                 IF k % 2 = 1 THEN toks[(k + 1) \div 2] ELSE <<seps[k \div 2]>>] :
              toks \in [1..n -> NormVocabulary], seps \in [1..(n - 1) -> {SP, NL}] } :
            n \in 1..MaxTokens }

RECURSIVE Concat(_)
Concat(parts) == IF parts = <<>> THEN <<>> ELSE Head(parts) \o Concat(Tail(parts))

NormLexicons ==
    { <<>>,
      << Row(<<"j","a">>, <<"a","@","A","P">>, <<"a">>),
         Row(<<"i","a">>, <<"x","a","@","A","D","V">>, <<"i","a">>),
         Row(<<"x","a">>, <<"x","a","@","A","D","V">>, <<"x","a">>) >>,
      << Row(<<"i","a">>, <<"i","a","@","V">>, <<"a","a">>),
         Row(<<"i","a">>, <<"a","@","A","P">>, <<"a">>),
         Row(<<"x","a">>, <<"x","o","@","V">>, <<"x","a">>),
         Row(<<"j","a">>, <<"i","u","s","@","N","N">>, <<"j","u","s">>) >> }

CharacterTables == { <<>>, << << <<"j">>, <<"i">> >> >> }
VerbEndingTables == { <<>>, << << <<"a">>, <<"a","t">> >> >> }

InitNorm ==
    /\ pc = "loop"
    /\ \E toks \in NormTexts, edge \in {<<>>, <<SP>>} :
         text = edge \o Concat(toks) \o edge
    /\ unique_words = UniqueWords(text)
    /\ df \in NormLexicons
    /\ \E c \in CharacterTables, v \in VerbEndingTables :
         config = [characters_to_normalise |-> c, verb_endings_to_normalise |-> v]
    /\ args = [text |-> text]
    /\ normalisation_error_list = <<>>
    /\ dict_normalization = Unbound
    /\ word = <<>>
    /\ superlemma = <<>>
    /\ lemma = <<>>
    /\ wordform = <<>>
    /\ normalised_word = <<>>
    /\ expanded_words = <<>>

\* the loop body run for the word w
Step(w) ==
    \E r \in {Iteration([text |-> text, errors |-> normalisation_error_list,
                         dict |-> dict_normalization], w, df, config)} :
        /\ word' = w
        /\ unique_words' = unique_words \ {w}
        /\ text' = r.text
        /\ normalisation_error_list' = r.errors
        /\ dict_normalization' = r.dict
        /\ pc' = r.pc
        /\ IF Attested(df, w)
           THEN /\ superlemma' = FirstRow(df, w).SL
                /\ lemma' = FirstRow(df, w).L
           ELSE UNCHANGED <<superlemma, lemma>>
        /\ IF r.dict # dict_normalization
           THEN /\ wordform' = r.dict.Wortform
                /\ normalised_word' = r.dict.Normalisierung
           ELSE UNCHANGED <<wordform, normalised_word>>
        /\ UNCHANGED <<df, config, expanded_words, args>>

\* lines 305-313: the word has a stopword as super-lemma
IterStopword ==
    /\ pc = "loop"
    /\ \E w \in unique_words :
         /\ Attested(df, w)
         /\ IsStopword(FirstRow(df, w).SL)
         /\ Step(w)

\* lines 305-316: super-lemma and lemma end differently
IterMismatch ==
    /\ pc = "loop"
    /\ \E w \in unique_words :
         /\ Attested(df, w)
         /\ ~IsStopword(FirstRow(df, w).SL)
         /\ EndingMismatch(FirstRow(df, w).SL, FirstRow(df, w).L)
         /\ Step(w)

\* lines 305-390: the word is normalised and replaced in the text
IterNormalise ==
    /\ pc = "loop"
    /\ \E w \in unique_words :
         /\ Attested(df, w)
         /\ ~IsStopword(FirstRow(df, w).SL)
         /\ ~EndingMismatch(FirstRow(df, w).SL, FirstRow(df, w).L)
         /\ Step(w)

\* lines 381-390: the word is not in the lexicon, an earlier word was normalised
IterMiss ==
    /\ pc = "loop"
    /\ dict_normalization # Unbound
    /\ \E w \in unique_words :
         /\ ~Attested(df, w)
         /\ Step(w)

\* lines 381-390: the word is not in the lexicon and no word was normalised
\* before it: line 390 raises UnboundLocalError
IterMissUnbound ==
    /\ pc = "loop"
    /\ dict_normalization = Unbound
    /\ \E w \in unique_words :
         /\ ~Attested(df, w)
         /\ Step(w)

\* lines 392-397
Return ==
    /\ pc = "loop"
    /\ unique_words = {}
    /\ text' = NormaliseCharacters(text, config)
    /\ pc' = "returned"
    /\ UNCHANGED <<word, superlemma, lemma, wordform, normalised_word,
                   unique_words, normalisation_error_list, dict_normalization,
                   df, config, expanded_words, args>>

NextNorm ==
    \/ IterStopword
    \/ IterMismatch
    \/ IterNormalise
    \/ IterMiss
    \/ IterMissUnbound
    \/ Return

SpecNorm == InitNorm /\ [][NextNorm]_vars

\* C4: a lookup miss is not fatal: the token is appended to the error list,
\* the loop goes on to the next token without raising an error, and
\* normalise_text returns a text, whichever token is processed first.
C4_LookupMissNonFatal ==
    /\ pc # "raised"
    /\ \A w \in UniqueWords(args.text) \ unique_words :
         ~Attested(df, w) => \E k \in DOMAIN normalisation_error_list :
                                 normalisation_error_list[k] = w

\* the token w has a stopword as super-lemma
IsStopwordToken(w) == Attested(df, w) /\ IsStopword(FirstRow(df, w).SL)

\* w after n applications of the character table
RECURSIVE CanonicalTimes(_, _)
CanonicalTimes(w, n) ==
    IF n = 0 THEN w ELSE NormaliseCharacters(CanonicalTimes(w, n - 1), config)

\* C9: a token whose super-lemma is a stopword is never normalised: it is not
\* put on the error list, and where it stands in the input, the returned
\* text holds the same token, changed by the character canonicalisation only.
C9_StopwordOnlyCanonicalised ==
    /\ \A k \in DOMAIN normalisation_error_list :
         ~IsStopwordToken(normalisation_error_list[k])
    /\ (pc = "returned" /\ Len(Split(text)) = Len(Split(args.text))) =>
         \A k \in DOMAIN Split(args.text) :
             IsStopwordToken(Split(args.text)[k]) =>
                 \E n \in 1..(Cardinality(UniqueWords(args.text)) + 1) :
                     Split(text)[k] = CanonicalTimes(Split(args.text)[k], n)

\* the call run with the words taken in one fixed order
RECURSIVE FixedOrderRun(_, _)
FixedOrderRun(st, remaining) ==
    IF remaining = {}
    THEN [text |-> NormaliseCharacters(st.text, config), errors |-> st.errors,
          dict |-> st.dict, pc |-> "returned"]
    ELSE LET w == CHOOSE x \in remaining : TRUE
             r == Iteration(st, w, df, config)
         IN  IF r.pc = "raised" THEN r ELSE FixedOrderRun(r, remaining \ {w})

Elements(list) == { list[k] : k \in DOMAIN list }

\* C10: the text returned by normalise_text and the contents of the error
\* list do not depend on the order in which the unique tokens are
\* processed: any two orders that return, return the same.
C10_OrderIndependent ==
    pc = "returned" =>
        \A ref \in {FixedOrderRun([text |-> args.text, errors |-> <<>>, dict |-> Unbound],
                                   UniqueWords(args.text))} :
            ref.pc = "returned" =>
                /\ text = ref.text
                /\ Elements(normalisation_error_list) = Elements(ref.errors)

====
